---- MODULE Spec2Model ----
(***************************************************************************)
(* A model of the cover fetcher (fetch-covers.js, src/unnamed/part_000)    *)
(* of the books page: the loader of the BookBeat export, the per-book      *)
(* cascade over Open Library and Google Books, the local cover files and   *)
(* the covers.json map, over several runs of the script.                   *)
(***************************************************************************)
EXTENDS Integers, Sequences, FiniteSets, TLC

(***************************************************************************)
(* Bounds of the model.                                                    *)
(***************************************************************************)
\* Categories in one export file.
MaxCategories == 2
\* Runs of the script in one behaviour.
MaxRuns == 2
\* Times BookBeat.json is replaced by a new export in one behaviour.
MaxExports == 1
\* Raw books in one bucket of an export the page is run on.
MaxBooks == 2
\* Editions of the book whose list of editions is varied.
MaxEditions == 3

(***************************************************************************)
(* Program constants.                                                      *)
(***************************************************************************)
\* imageData.length > 1000 (Open Library, by cover id, by ISBN, by title).
OL_MIN_BYTES == 1000
\* imageData.length > 2000 (Google Books).
GB_MIN_BYTES == 2000
\* DELAY_BETWEEN_REQUESTS.
DELAY_BETWEEN_REQUESTS == 500

(***************************************************************************)
(* Values.                                                                 *)
(***************************************************************************)
\* JavaScript null, as the author of a result or of a map entry.
Null == "null"
\* The path of a map entry: null, or covers/<id>.jpg.
NullPath == <<>>
\* One image file for all books.
SharedCoverPath(id) == <<"covers", "cover", "jpg">>

CoverPath(id) == <<"covers", id, "jpg">>

Authors == {"Herbert", "Asimov"}
AuthorOrNull == Authors \cup {Null}

\* Byte lengths an image response may have: around both thresholds.
Sizes == {OL_MIN_BYTES - 1, OL_MIN_BYTES, OL_MIN_BYTES + 1,
          GB_MIN_BYTES, GB_MIN_BYTES + 1}

\* A string is a sequence of one-character strings.
Digits == {"0", "1", "2", "3", "4", "5", "6", "7", "8", "9"}

\* /[^0-9X]/gi: with the i flag the class keeps x as well as X.
KeptByISBNRegex(c) == c \in Digits \cup {"X", "x"}

\* String(isbn).replace(/[^0-9X]/gi, '')
StripISBN(isbn) == SelectSeq(isbn, KeptByISBNRegex)

(***************************************************************************)
(* The export file BookBeat.json: a sequence of categories [type, books].  *)
(* A raw book is a record that may lack the fields title and editions; an  *)
(* absent or empty isbn, title, bookId or bookid is the empty string       *)
(* (falsy either way).                                                     *)
(***************************************************************************)
Edition(isbn) == [isbn |-> isbn]

RawIsbnA == <<"9", "-", "1">>
RawIsbnB == <<"2", "x">>
RawIsbnC == <<"7">>

Categories ==
    { [type |-> "myfinishedbooks",
       books |-> << [bookId |-> "b1", bookid |-> "", title |-> "Dune",
                     editions |-> <<Edition(RawIsbnA)>>] >>],
      [type |-> "myfinishedbooks",
       books |-> << [bookId |-> "b2", bookid |-> "", title |-> "Emma",
                     editions |-> <<Edition(RawIsbnB), Edition(<<>>),
                                    Edition(RawIsbnC)>>],
                    [bookId |-> "b1", bookid |-> "", title |-> "Ulysses",
                     editions |-> <<Edition(RawIsbnC)>>] >>],
      [type |-> "mysavedbooks",
       books |-> << [bookId |-> "", bookid |-> "b1", title |-> "Emma",
                     editions |-> <<Edition(RawIsbnB)>>] >>],
      [type |-> "mysavedbooks",
       books |-> << [bookId |-> "", bookid |-> "b2", title |-> "Dune",
                     editions |-> <<Edition(<<>>)>>],
                    [bookId |-> "", bookid |-> "b2", title |-> "Dune"],
                    [bookId |-> "b2", bookid |-> "", title |-> "",
                     editions |-> <<Edition(RawIsbnA)>>] >>],
      [type |-> "myreadbooks",
       books |-> << [bookId |-> "b2", bookid |-> "", title |-> "Dune",
                     editions |-> <<Edition(RawIsbnA)>>] >>],
      [type |-> "myfinishedbooks"] }

\* The exports of the model: up to MaxCategories categories.
Exports == UNION { [1..n -> Categories] : n \in 0..MaxCategories }

(***************************************************************************)
(* loadBooks                                                               *)
(***************************************************************************)
\* category.books || []
BooksOf(category) ==
    IF "books" \in DOMAIN category THEN category.books ELSE <<>>

\* The ISBNs pushed for one book: every truthy edition.isbn, stripped.
RECURSIVE EditionISBNs(_)
EditionISBNs(editions) ==
    IF editions = <<>> THEN <<>>
    ELSE LET edition == Head(editions)
             rest == EditionISBNs(Tail(editions))
         IN  IF edition.isbn # <<>>
             THEN <<StripISBN(edition.isbn)>> \o rest
             ELSE rest

\* book.bookId || book.bookid
IdOf(book) == IF book.bookId # "" THEN book.bookId ELSE book.bookid

\* The test without the check of isbns.length.
LoadableWithoutISBN(book) ==
    /\ "title" \in DOMAIN book
    /\ book.title # ""
    /\ "editions" \in DOMAIN book

\* if (book.title && book.editions) ... if (isbns.length > 0) books.push(...)
Loadable(book) ==
    /\ "title" \in DOMAIN book
    /\ book.title # ""
    /\ "editions" \in DOMAIN book
    /\ EditionISBNs(book.editions) # <<>>

LoadedBook(book) ==
    [id |-> IdOf(book), title |-> book.title,
     isbns |-> EditionISBNs(book.editions)]

RECURSIVE PushBooks(_)
PushBooks(rawBooks) ==
    IF rawBooks = <<>> THEN <<>>
    ELSE (IF Loadable(Head(rawBooks)) THEN <<LoadedBook(Head(rawBooks))>>
          ELSE <<>>) \o PushBooks(Tail(rawBooks))

\* category.type === 'myfinishedbooks' || category.type === 'mysavedbooks'
Consumed(category) == category.type \in {"myfinishedbooks", "mysavedbooks"}

\* The books array before the removal of duplicates.
RECURSIVE CollectBooks(_)
CollectBooks(data) ==
    IF data = <<>> THEN <<>>
    ELSE (IF Consumed(Head(data)) THEN PushBooks(BooksOf(Head(data)))
          ELSE <<>>) \o CollectBooks(Tail(data))

\* books.filter(book => { if (seen.has(book.id)) return false; ... })
RECURSIVE FilterSeen(_, _)
FilterSeen(list, seen) ==
    IF list = <<>> THEN <<>>
    ELSE IF Head(list).id \in seen THEN FilterSeen(Tail(list), seen)
    ELSE <<Head(list)>> \o FilterSeen(Tail(list), seen \cup {Head(list).id})

\* A filter that keeps the last occurrence of an id instead of the first.
RECURSIVE FilterLast(_)
FilterLast(list) ==
    IF list = <<>> THEN <<>>
    ELSE IF \E n \in 2..Len(list) : list[n].id = Head(list).id
         THEN FilterLast(Tail(list))
         ELSE <<Head(list)>> \o FilterLast(Tail(list))

RemoveDuplicatesKeepingLast(list) == FilterLast(list)

\* Remove duplicates by ID
RemoveDuplicates(list) == FilterSeen(list, {})

LoadBooks(data) == RemoveDuplicates(CollectBooks(data))

(***************************************************************************)
(* Results, map entries, responses of the external sources.                *)
(***************************************************************************)
Entry(path, author) == [path |-> path, author |-> author]

EmptyMap == [id \in {} |-> Entry(NullPath, Null)]

\* map[id] = entry
Put(map, id, entry) ==
    [x \in DOMAIN map \cup {id} |-> IF x = id THEN entry ELSE map[x]]

\* What a try function returns: null, or { buffer, author }.
NoResult == [found |-> FALSE, size |-> 0, src |-> "none", author |-> Null]
Found(size, src, author) ==
    [found |-> TRUE, size |-> size, src |-> src, author |-> author]

\* fetchJson of a search URL: it throws (network error, status, JSON.parse,
\* a body that is not an object), or gives the first usable record: whether
\* it carries a cover (cover_i, imageLinks), whether the cover has a URL
\* (one of the image variants), and the author it offers.
SearchResponses ==
    { [kind |-> "error", cover |-> FALSE, link |-> FALSE, author |-> Null],
      [kind |-> "empty", cover |-> FALSE, link |-> FALSE, author |-> Null] }
    \cup { [kind |-> "hit", cover |-> c, link |-> l, author |-> a] :
             c \in BOOLEAN, l \in BOOLEAN, a \in AuthorOrNull }

\* fetchUrl of an image URL: it throws, or gives a buffer of some length.
ImageResponses ==
    { [ok |-> FALSE, size |-> 0] } \cup { [ok |-> TRUE, size |-> n] : n \in Sizes }

(***************************************************************************)
(* The page (script.js): ISBN extraction.                                  *)
(* An edition of the export carries type, format and isbn; an absent or    *)
(* empty field is the empty string (the empty sequence for isbn).          *)
(***************************************************************************)
\* String(isbn).replace(/[^0-9X]/i, ''): without the g flag only the first
\* match is removed.
RECURSIVE cleanISBNFirstMatchOnly(_)
cleanISBNFirstMatchOnly(isbn) ==
    IF isbn = <<>> THEN <<>>
    ELSE IF KeptByISBNRegex(Head(isbn))
         THEN <<Head(isbn)>> \o cleanISBNFirstMatchOnly(Tail(isbn))
         ELSE Tail(isbn)

\* return String(isbn).replace(/[^0-9X]/gi, '')
cleanISBN(isbn) == SelectSeq(isbn, KeptByISBNRegex)

\* isbns.includes(cleaned)
Includes(list, value) == \E n \in 1..Len(list) : list[n] = value

\* The tests of the second loop put in the place of those of the first.
IsEBookSwapped(edition) ==
    edition.format = "audioBook" \/ edition.type = "audioBook"

\* edition.format === 'eBook' || edition.type === 'eBook'
IsEBook(edition) == edition.format = "eBook" \/ edition.type = "eBook"

\* edition.format === 'audioBook' || edition.type === 'audioBook'
IsAudioBook(edition) ==
    edition.format = "audioBook" \/ edition.type = "audioBook"

\* The first loop: every eBook ISBN is pushed, without a look at isbns.
RECURSIVE EBookLoop(_, _)
EBookLoop(editions, list) ==
    IF editions = <<>> THEN list
    ELSE LET edition == Head(editions)
         IN  IF IsEBook(edition) /\ edition.isbn # <<>>
             THEN EBookLoop(Tail(editions),
                            Append(list, cleanISBN(edition.isbn)))
             ELSE EBookLoop(Tail(editions), list)

\* The second loop: audioBook ISBNs that isbns does not include yet.
RECURSIVE AudioBookLoop(_, _)
AudioBookLoop(editions, list) ==
    IF editions = <<>> THEN list
    ELSE LET edition == Head(editions)
             cleaned == cleanISBN(edition.isbn)
         IN  IF /\ IsAudioBook(edition)
                /\ edition.isbn # <<>>
                /\ ~Includes(list, cleaned)
             THEN AudioBookLoop(Tail(editions), Append(list, cleaned))
             ELSE AudioBookLoop(Tail(editions), list)

\* The third loop: the ISBN of any edition, if isbns does not include it.
RECURSIVE AnyEditionLoop(_, _)
AnyEditionLoop(editions, list) ==
    IF editions = <<>> THEN list
    ELSE LET edition == Head(editions)
             cleaned == cleanISBN(edition.isbn)
         IN  IF edition.isbn # <<>> /\ ~Includes(list, cleaned)
             THEN AnyEditionLoop(Tail(editions), Append(list, cleaned))
             ELSE AnyEditionLoop(Tail(editions), list)

extractAllISBNs(editions) ==
    AnyEditionLoop(editions,
                   AudioBookLoop(editions, EBookLoop(editions, <<>>)))

\* extractAllISBNs(book.editions), with if (!editions ...) return []
IsbnsOf(rawBook) ==
    IF "editions" \in DOMAIN rawBook THEN extractAllISBNs(rawBook.editions)
    ELSE <<>>

(***************************************************************************)
(* The page: dates. A date string is kept as what new Date makes of it: it *)
(* is absent (or empty), it does not parse, or it parses to a day of a     *)
(* year. The local time zone is the one the string is written in.          *)
(***************************************************************************)
NoDate == [kind |-> "absent", year |-> 0, day |-> 0]
NotADate == [kind |-> "unparseable", year |-> 0, day |-> 0]
DateOn(year, day) == [kind |-> "date", year |-> year, day |-> day]

\* new Date(a) - new Date(b) is positive: a is the later of two parsed dates.
Later(a, b) == a.year > b.year \/ (a.year = b.year /\ a.day > b.day)

\* extractYear: null is <<>>, the year y is <<y>>.
extractYear(dateString) ==
    IF dateString.kind = "absent" THEN <<>>
    ELSE IF dateString.kind = "unparseable" THEN <<>>
    ELSE <<dateString.year>>

\* A filter that keeps a record for its year alone.
KeptWithoutTitle(record) == record.year # <<>> /\ record.year[1] # 0

\* book.year && book.title: null, 0 and '' are falsy.
Kept(record) ==
    /\ record.year # <<>>
    /\ record.year[1] # 0
    /\ record.title # ""

(***************************************************************************)
(* The page: processBooks.                                                 *)
(***************************************************************************)
\* .map(book => ({title, bookId: book.bookId, isbns, finishedDate, year}))
FinishedRecord(rawBook) ==
    [title |-> rawBook.title,
     bookId |-> rawBook.bookId,
     isbns |-> IsbnsOf(rawBook),
     when |-> rawBook.finishedDate,
     year |-> extractYear(rawBook.finishedDate)]

\* .map(book => ({title, bookId: book.bookid || book.bookId, isbns, date,
\* year}))
SavedRecord(rawBook) ==
    [title |-> rawBook.title,
     bookId |-> IF rawBook.bookid # "" THEN rawBook.bookid
                ELSE rawBook.bookId,
     isbns |-> IsbnsOf(rawBook),
     when |-> rawBook.date,
     year |-> extractYear(rawBook.date)]

\* A comparator that sorts by date ascending: new Date(a) - new Date(b).
ComesFirstAscending(a, b) == Later(b.when, a.when)

\* (a, b) => new Date(b.date) - new Date(a.date) is negative: a comes first.
ComesFirst(a, b) == Later(a.when, b.when)

\* Array.prototype.sort is stable: x goes behind every record that does not
\* have to come after it.
RECURSIVE Insert(_, _)
Insert(x, sorted) ==
    IF sorted = <<>> THEN <<x>>
    ELSE IF ComesFirst(x, Head(sorted)) THEN <<x>> \o sorted
    ELSE <<Head(sorted)>> \o Insert(x, Tail(sorted))

RECURSIVE SortFrom(_, _)
SortFrom(list, sorted) ==
    IF list = <<>> THEN sorted
    ELSE SortFrom(Tail(list), Insert(Head(list), sorted))

\* .sort((a, b) => new Date(b.date) - new Date(a.date))
Sort(list) == SortFrom(list, <<>>)

RECURSIVE MapFinished(_)
MapFinished(raw) ==
    IF raw = <<>> THEN <<>>
    ELSE <<FinishedRecord(Head(raw))>> \o MapFinished(Tail(raw))

RECURSIVE MapSaved(_)
MapSaved(raw) ==
    IF raw = <<>> THEN <<>>
    ELSE <<SavedRecord(Head(raw))>> \o MapSaved(Tail(raw))

\* finishedRaw.map(...).filter(...).sort(...)
FinishedBooks(raw) == Sort(SelectSeq(MapFinished(raw), Kept))

\* savedRaw.map(...).filter(...).sort(...)
SavedBooks(raw) == Sort(SelectSeq(MapSaved(raw), Kept))

(***************************************************************************)
(* The page: findCategory. An export is an array of categories or, in the  *)
(* flat shape, an object keyed by the type of the bucket.                  *)
(***************************************************************************)
\* The value of an expression that may be undefined.
Undefined == [defined |-> FALSE, books |-> <<>>]
Defined(rawBooks) == [defined |-> TRUE, books |-> rawBooks]

\* An object of the flat shape: a key it does not have is undefined.
FlatObject(finished, saved) ==
    [myfinishedbooks |-> finished, mysavedbooks |-> saved]

Bucketed(categories) ==
    [isArray |-> TRUE, items |-> categories,
     object |-> FlatObject(Undefined, Undefined)]
Flat(object) == [isArray |-> FALSE, items |-> <<>>, object |-> object]

\* data.find(item => item.type === type), as an index (0: none)
Find(categories, type) ==
    IF \E n \in 1..Len(categories) : categories[n].type = type
    THEN CHOOSE n \in 1..Len(categories) :
             /\ categories[n].type = type
             /\ \A m \in 1..(n - 1) : categories[m].type # type
    ELSE 0

\* category ? category.books : []  and, for the flat shape, data[type] || []
findCategory(data, type) ==
    IF data.isArray
    THEN LET n == Find(data.items, type)
         IN  IF n = 0 THEN Defined(<<>>)
             ELSE IF "books" \in DOMAIN data.items[n]
                  THEN Defined(data.items[n].books)
                  ELSE Undefined
    ELSE IF data.object[type].defined THEN data.object[type]
         ELSE Defined(<<>>)

(***************************************************************************)
(* The page: groupByYear.                                                  *)
(***************************************************************************)
\* Object.keys(groups): keys that are integers come in ascending order.
RECURSIVE Ascending(_)
Ascending(years) ==
    IF years = {} THEN <<>>
    ELSE LET least == CHOOSE y \in years : \A z \in years : y <= z
         IN  <<least>> \o Ascending(years \ {least})

ObjectKeys(list) == Ascending({ list[n].year[1] : n \in 1..Len(list) })

\* The keys left in the order of Object.keys.
Unsorted(keys) == keys

\* b - a is negative: a goes before b.
RECURSIVE InsertKey(_, _)
InsertKey(key, sorted) ==
    IF sorted = <<>> THEN <<key>>
    ELSE IF Head(sorted) - key < 0 THEN <<key>> \o sorted
    ELSE <<Head(sorted)>> \o InsertKey(key, Tail(sorted))

RECURSIVE SortKeysFrom(_, _)
SortKeysFrom(keys, sorted) ==
    IF keys = <<>> THEN sorted
    ELSE SortKeysFrom(Tail(keys), InsertKey(Head(keys), sorted))

\* .sort((a, b) => b - a)
SortDescending(keys) == SortKeysFrom(keys, <<>>)

\* groups[book.year].push(book), for the books of one year
BooksOfYear(list, year) ==
    LET OfYear(record) == record.year[1] = year
    IN  SelectSeq(list, OfYear)

groupByYear(list) ==
    LET keys == SortDescending(ObjectKeys(list))
    IN  [n \in 1..Len(keys) |->
            [year |-> keys[n], books |-> BooksOfYear(list, keys[n])]]

(***************************************************************************)
(* The pipeline's loadBooks on an export of either shape.                  *)
(***************************************************************************)
\* for (const category of data): an object is not iterable, a TypeError.
LoadBooksOf(data) ==
    IF data.isArray THEN [raised |-> FALSE, books |-> LoadBooks(data.items)]
    ELSE [raised |-> TRUE, books |-> <<>>]

(***************************************************************************)
(* The exports the page is run on. Every raw book carries the fields       *)
(* bookId, bookid, title, finishedDate and date (empty when absent) and,   *)
(* unless it has none, the list of its editions.                           *)
(***************************************************************************)
PageEdition(type, format, isbn) ==
    [type |-> type, format |-> format, isbn |-> isbn]

RawIsbnD == <<"-", "9", "-", "1">>
RawIsbnE == <<"2", "X">>
RawIsbns == {RawIsbnA, RawIsbnD, RawIsbnB, RawIsbnE, <<>>}

Editions ==
    { PageEdition(type, "", isbn) :
          type \in {"eBook", "audioBook", "paperback"}, isbn \in RawIsbns }
    \cup { PageEdition("", "eBook", RawIsbnA),
           PageEdition("", "audioBook", RawIsbnB) }

EditionLists == UNION { [1..n -> Editions] : n \in 0..MaxEditions }

RawBook(bookId, bookid, title, finishedDate, date, editions) ==
    [bookId |-> bookId, bookid |-> bookid, title |-> title,
     finishedDate |-> finishedDate, date |-> date, editions |-> editions]

\* One finished book, with any list of editions.
EditionExports ==
    { Bucketed(<< [type |-> "myfinishedbooks",
                   books |-> << RawBook("b1", "", "Dune", DateOn(2023, 1),
                                        NoDate, editions) >>] >>) :
          editions \in EditionLists }

OneEBook == << PageEdition("eBook", "", RawIsbnA) >>

RawFinished ==
    { RawBook("b1", "", "Dune", DateOn(2022, 1), NoDate, OneEBook),
      RawBook("b2", "", "Emma", DateOn(2023, 1), NoDate, OneEBook),
      RawBook("", "b3", "Ulysses", DateOn(2023, 2), NoDate, OneEBook),
      RawBook("b4", "", "", DateOn(2023, 1), NoDate, OneEBook),
      [bookId |-> "b5", bookid |-> "", title |-> "Faust",
       finishedDate |-> NoDate, date |-> NoDate],
      RawBook("b6", "", "Hamlet", NotADate, NoDate, OneEBook),
      RawBook("b7", "", "Iliad", DateOn(0, 1), NoDate, OneEBook) }

RawSaved ==
    { RawBook("", "s1", "Dune", NoDate, DateOn(2022, 1), OneEBook),
      RawBook("s2", "", "Emma", NoDate, DateOn(2023, 1), OneEBook),
      RawBook("", "s3", "", NoDate, DateOn(2023, 1), OneEBook),
      RawBook("", "s4", "Faust", NoDate, NotADate, OneEBook) }

BucketsOf(rawBooks) == UNION { [1..n -> rawBooks] : n \in 0..MaxBooks }

\* A bucket of the array shape; one without the field books as well.
FinishedCategories ==
    { [type |-> "myfinishedbooks", books |-> bucket] :
          bucket \in BucketsOf(RawFinished) }
    \cup { [type |-> "myfinishedbooks"] }

SavedCategories ==
    { [type |-> "mysavedbooks", books |-> bucket] :
          bucket \in BucketsOf(RawSaved) }

BucketedExports ==
    { Bucketed(<<>>) }
    \cup { Bucketed(<<f>>) : f \in FinishedCategories }
    \cup { Bucketed(<<s>>) : s \in SavedCategories }
    \cup { Bucketed(<<f, s>>) : f \in FinishedCategories, s \in SavedCategories }
    \cup { Bucketed(<<s, f>>) : f \in FinishedCategories, s \in SavedCategories }

\* The flat shape of the README: an object keyed by the type of the bucket.
FlatExports ==
    { Flat(FlatObject(Undefined, Undefined)) }
    \cup { Flat(FlatObject(Defined(f), Undefined)) :
               f \in BucketsOf(RawFinished) }
    \cup { Flat(FlatObject(Undefined, Defined(s))) :
               s \in BucketsOf(RawSaved) }
    \cup { Flat(FlatObject(Defined(f), Defined(s))) :
               f \in BucketsOf(RawFinished), s \in BucketsOf(RawSaved) }

PageExports == EditionExports \cup BucketedExports \cup FlatExports

(***************************************************************************)
(* State.                                                                  *)
(***************************************************************************)
VARIABLES
    bookbeat,           \* BookBeat.json
    files,              \* ids whose covers/<id>.jpg exists
    coversFile,         \* covers.json (the empty map when the file is absent)
    pc,                 \* where main is
    books,              \* const books = loadBooks()
    i,                  \* the loop index, 1-based
    existingCoversMap,  \* the map loaded at the start of the run
    coversMap,          \* the map of this run
    k,                  \* the index of the ISBN being tried, 1-based
    searchAuthor,       \* the author of the search record in hand
    result,             \* let result
    run,                \* runs started
    exports,            \* exports made
    prevEnd,            \* how the last run on this export ended
    prevResolved,       \* ids that run had an image or an author for
    mode,               \* how this run relates to the last one
    netBooks,           \* ids a request was issued for in this run
    tried,              \* the cover queries issued for this book
    accepted,           \* a try function returned an image for this book
    hadFile,            \* ids whose file existed when they were processed
    hadNoCoverAuthor,   \* ids without file whose old entry was (null, author)
    lastWrite,          \* the image written for this book
    received,           \* the response just received: an image, a failure
    dropped,            \* ids of the old map the last write left out
    sawFailure,         \* a request of this run failed
    offered,            \* the author the Open Library search of this ISBN gave
    authorTried,        \* the queries of tryGetAuthorOnly for this book
    lastNet,            \* the index of the book of the last request (0: none)
    waited,             \* the time spent in delays since that request, in ms
    outstanding,        \* the requests sent and not yet answered
    url,                \* the address the request in flight was sent to
    pageData,           \* the export the page is run on
    step,               \* where init of the page is
    finishedBooks,      \* state.finishedBooks
    savedBooks,         \* state.savedBooks
    yearGroups,         \* groupByYear of both lists, as rendered
    loaded              \* loadBooks of the pipeline on the same export

disk == <<bookbeat, files, coversFile>>
memory == <<books, i, existingCoversMap, coversMap, k, searchAuthor, result>>
runs == <<run, exports, prevEnd, prevResolved, mode>>
history == <<netBooks, tried, accepted, hadFile, hadNoCoverAuthor, lastWrite,
             received, dropped, sawFailure, offered, authorTried, lastNet,
             waited>>
wire == <<outstanding, url>>
pipeline == <<disk, pc, memory, runs, history, wire>>
page == <<pageData, step, finishedBooks, savedBooks, yearGroups, loaded>>
vars == <<pipeline, page>>

NotLoaded == [run |-> FALSE, raised |-> FALSE, books |-> <<>>]
NotRendered == [finished |-> <<>>, saved |-> <<>>]

\* The page is not part of the runs of the pipeline.
PageOff ==
    /\ pageData = Bucketed(<<>>)
    /\ step = "off"
    /\ finishedBooks = <<>>
    /\ savedBooks = <<>>
    /\ yearGroups = NotRendered
    /\ loaded = NotLoaded

NoWrite == [id |-> "", size |-> 0, src |-> "none"]
NoImage == [src |-> "none", size |-> 0]
Failure == [src |-> "error", size |-> 0]
Image(src, size) == [src |-> src, size |-> size]

PipelineInit ==
    /\ bookbeat \in Exports
    /\ files = {}
    /\ coversFile = EmptyMap
    /\ pc = "idle"
    /\ books = <<>>
    /\ i = 0
    /\ existingCoversMap = EmptyMap
    /\ coversMap = EmptyMap
    /\ k = 0
    /\ searchAuthor = Null
    /\ result = NoResult
    /\ run = 0
    /\ exports = 0
    /\ prevEnd = "none"
    /\ prevResolved = {}
    /\ mode = "none"
    /\ netBooks = {}
    /\ tried = <<>>
    /\ accepted = FALSE
    /\ hadFile = {}
    /\ hadNoCoverAuthor = {}
    /\ lastWrite = NoWrite
    /\ received = NoImage
    /\ dropped = {}
    /\ sawFailure = FALSE
    /\ offered = Null
    /\ authorTried = <<>>
    /\ lastNet = 0
    /\ waited = 0
    /\ outstanding = 0
    /\ url = "asked"

Init == PipelineInit /\ PageOff

(***************************************************************************)
(* Helpers of main.                                                        *)
(***************************************************************************)
book == books[i]
isbns == book.isbns

Goto(label, index) == [pc |-> label, k |-> index]

IdsOf(list) == { list[n].id : n \in 1..Len(list) }

\* existingEntry?.author || null
ExistingAuthor(id) ==
    IF id \in DOMAIN existingCoversMap THEN existingCoversMap[id].author ELSE Null

\* fs.existsSync(coverPath)
AlreadyDownloaded(id) == id \in files

\* The test with the author check inverted.
NoCoverButAuthorInverted(id) ==
    /\ id \in DOMAIN existingCoversMap
    /\ existingCoversMap[id].path = NullPath
    /\ existingCoversMap[id].author = Null

\* existingEntry && existingEntry.path === null && existingEntry.author
NoCoverButAuthor(id) ==
    /\ id \in DOMAIN existingCoversMap
    /\ existingCoversMap[id].path = NullPath
    /\ existingCoversMap[id].author # Null

\* A cached entry that forgets the author of the old entry.
CachedEntryWithoutAuthor(id) == Entry(CoverPath(id), Null)

\* coversMap[book.id] = { path: `covers/${book.id}.jpg`, author: existingEntry?.author || null }
CachedEntry(id) == Entry(CoverPath(id), ExistingAuthor(id))

\* coversMap[book.id] = existingEntry
KeptEntry(id) == existingCoversMap[id]

\* imageData.length > 1000, directData.length > 1000
AcceptedByOpenLibrary(size) == size > OL_MIN_BYTES

\* The Google Books check with the Open Library threshold.
AcceptedByGoogleBooksAtOpenLibraryMin(size) == size > OL_MIN_BYTES

\* imageData.length > 2000
AcceptedByGoogleBooks(size) == size > GB_MIN_BYTES

\* The ids with an image or an author in a map.
Resolved(map) ==
    { id \in DOMAIN map : map[id].path # NullPath \/ map[id].author # Null }

\* What the loop head sees of the book it is about to process.
SeenAtLoopHead ==
    /\ hadFile' = IF book.id \in files THEN hadFile \cup {book.id} ELSE hadFile
    /\ hadNoCoverAuthor' =
          IF /\ book.id \notin files
             /\ book.id \in DOMAIN existingCoversMap
             /\ existingCoversMap[book.id].path = NullPath
             /\ existingCoversMap[book.id].author \in Authors
          THEN hadNoCoverAuthor \cup {book.id}
          ELSE hadNoCoverAuthor

\* The first loop without its break.
AfterPrimaryWithoutBreak(r, index, n) ==
    IF index < n THEN Goto("olSearch", index + 1)
    ELSE IF r.found THEN Goto("resolve", 0)
    ELSE Goto("gbSearch", 1)

\* The loops over book.isbns and the guards if (!result) between them.
AfterPrimary(r, index, n) ==
    IF r.found THEN Goto("resolve", 0)
    ELSE IF index < n THEN Goto("olSearch", index + 1)
    ELSE Goto("gbSearch", 1)

AfterSecondary(r, index, n) ==
    IF r.found THEN Goto("resolve", 0)
    ELSE IF index < n THEN Goto("gbSearch", index + 1)
    ELSE Goto("titleSearch", 0)

FirstStage(n) == IF n >= 1 THEN Goto("olSearch", 1) ELSE Goto("titleSearch", 0)

FirstAuthorStage(n) == IF n >= 1 THEN Goto("authorGb", 1) ELSE Goto("authorTitle", 0)

\* The loop of tryGetAuthorOnly left after its first ISBN.
AfterAuthorGbFirstOnly(index, n) == Goto("authorTitle", 0)

AfterAuthorGb(index, n) ==
    IF index < n THEN Goto("authorGb", index + 1) ELSE Goto("authorTitle", 0)

Query(stage, index, isbn) == [stage |-> stage, idx |-> index, isbn |-> isbn]

\* A request for the current book goes out, and fails or gives a response
\* (an image of some source and size, or search data).
Request(failed, image) ==
    /\ netBooks' = netBooks \cup {book.id}
    /\ sawFailure' = (sawFailure \/ failed)
    /\ received' = IF failed THEN Failure ELSE image

(***************************************************************************)
(* The environment.                                                        *)
(***************************************************************************)
\* BookBeat.json is replaced by a new export between two runs.
Export ==
    /\ pc = "idle"
    /\ exports < MaxExports
    /\ run < MaxRuns
    /\ \E data \in Exports \ {bookbeat} : bookbeat' = data
    /\ exports' = exports + 1
    /\ prevEnd' = "none"
    /\ prevResolved' = {}
    /\ dropped' = {}
    /\ sawFailure' = FALSE
    /\ UNCHANGED <<files, coversFile, pc, memory, run, mode, netBooks, tried,
                   accepted, hadFile, hadNoCoverAuthor, lastWrite, received>>

\* The process is killed during a run: memory is lost, the disk stays.
Interrupt ==
    /\ pc \notin {"idle", "crashed"}
    /\ pc' = "idle"
    /\ books' = <<>>
    /\ i' = 0
    /\ existingCoversMap' = EmptyMap
    /\ coversMap' = EmptyMap
    /\ k' = 0
    /\ searchAuthor' = Null
    /\ result' = NoResult
    /\ prevEnd' = "interrupted"
    /\ prevResolved' = Resolved(coversMap)
    /\ netBooks' = {}
    /\ tried' = <<>>
    /\ accepted' = FALSE
    /\ hadFile' = {}
    /\ hadNoCoverAuthor' = {}
    /\ lastWrite' = NoWrite
    /\ received' = NoImage
    /\ sawFailure' = FALSE
    /\ UNCHANGED <<disk, run, exports, mode, dropped>>

(***************************************************************************)
(* main                                                                    *)
(***************************************************************************)
\* A run that starts without reading covers.json.
LoadCoversMapSkipped == EmptyMap

\* existingCoversMap = JSON.parse(fs.readFileSync(COVERS_MAP_FILE, 'utf8'))
LoadCoversMap == coversFile

\* A run that goes on writing into the map it loaded.
NewCoversMapInPlace == coversFile

\* const coversMap = {}
NewCoversMap == EmptyMap

\* loadBooks(), the load of covers.json, const coversMap = {}
StartRun ==
    /\ pc = "idle"
    /\ run < MaxRuns
    /\ run' = run + 1
    /\ books' = LoadBooks(bookbeat)
    /\ existingCoversMap' = LoadCoversMap
    /\ coversMap' = NewCoversMap
    /\ i' = 1
    /\ pc' = "loop"
    /\ mode' = prevEnd
    /\ dropped' = {}
    /\ sawFailure' = FALSE
    /\ UNCHANGED <<disk, k, searchAuthor, result, exports, prevEnd, prevResolved,
                   netBooks, tried, accepted, hadFile, hadNoCoverAuthor, lastWrite,
                   received>>

\* if (fs.existsSync(coverPath)) { ...; continue; }
SkipCached ==
    /\ pc = "loop"
    /\ i <= Len(books)
    /\ AlreadyDownloaded(book.id)
    /\ coversMap' = Put(coversMap, book.id, CachedEntry(book.id))
    /\ i' = i + 1
    /\ SeenAtLoopHead
    /\ UNCHANGED <<disk, pc, books, existingCoversMap, k, searchAuthor, result,
                   runs, netBooks, tried, accepted, lastWrite, received,
                   dropped, sawFailure>>

\* if (existingEntry && existingEntry.path === null && existingEntry.author) { ...; continue; }
SkipNoCoverWithAuthor ==
    /\ pc = "loop"
    /\ i <= Len(books)
    /\ ~AlreadyDownloaded(book.id)
    /\ NoCoverButAuthor(book.id)
    /\ coversMap' = Put(coversMap, book.id, KeptEntry(book.id))
    /\ i' = i + 1
    /\ SeenAtLoopHead
    /\ UNCHANGED <<disk, pc, books, existingCoversMap, k, searchAuthor, result,
                   runs, netBooks, tried, accepted, lastWrite, received,
                   dropped, sawFailure>>

\* let result = null; and the entry of the first loop
BeginFetch ==
    /\ pc = "loop"
    /\ i <= Len(books)
    /\ ~AlreadyDownloaded(book.id)
    /\ ~NoCoverButAuthor(book.id)
    /\ result' = NoResult
    /\ pc' = FirstStage(Len(isbns)).pc
    /\ k' = FirstStage(Len(isbns)).k
    /\ tried' = <<>>
    /\ accepted' = FALSE
    /\ SeenAtLoopHead
    /\ UNCHANGED <<disk, books, i, existingCoversMap, coversMap, searchAuthor,
                   runs, netBooks, lastWrite, received, dropped, sawFailure>>

(***************************************************************************)
(* The try functions, one action per request.                              *)
(***************************************************************************)
\* What the cover stages leave alone.
CoverFrame ==
    UNCHANGED <<disk, books, i, existingCoversMap, coversMap, runs, hadFile,
                hadNoCoverAuthor, lastWrite, dropped>>

\* result = await try...(...) returns r, and main goes on at g.
Returns(r, g) ==
    /\ result' = r
    /\ accepted' = (accepted \/ r.found)
    /\ searchAuthor' = Null
    /\ pc' = g.pc
    /\ k' = g.k

\* The try function goes on to its next request, with author a in hand.
Within(label, a) ==
    /\ pc' = label
    /\ searchAuthor' = a
    /\ UNCHANGED <<k, result, accepted>>

OlReturns(r) == Returns(r, AfterPrimary(r, k, Len(isbns)))
GbReturns(r) == Returns(r, AfterSecondary(r, k, Len(isbns)))
TitleReturns(r) == Returns(r, Goto("resolve", 0))

\* tryOpenLibrary without its catch: the error ends main.
OlRethrow ==
    /\ pc' = "crashed"
    /\ UNCHANGED <<k, result, accepted, searchAuthor>>

\* catch (e) { } return null;
OlCatch == OlReturns(NoResult)
GbCatch == GbReturns(NoResult)
TitleCatch == TitleReturns(NoResult)

\* tryOpenLibrary: fetchJson(searchUrl)
OlSearch ==
    /\ pc = "olSearch"
    /\ tried' = Append(tried, Query("primary", k, isbns[k]))
    /\ \E resp \in SearchResponses :
          /\ Request(resp.kind = "error", NoImage)
          /\ IF resp.kind = "error" THEN OlCatch
             ELSE IF resp.kind = "hit" /\ resp.cover
                  THEN Within("olCover", resp.author)
                  ELSE Within("olDirect",
                              IF resp.kind = "hit" THEN resp.author ELSE Null)
    /\ CoverFrame

\* tryOpenLibrary: fetchUrl(coverUrl)
OlCover ==
    /\ pc = "olCover"
    /\ \E img \in ImageResponses :
          /\ Request(~img.ok, Image("primary", img.size))
          /\ IF ~img.ok THEN OlCatch
             ELSE IF AcceptedByOpenLibrary(img.size)
                  THEN OlReturns(Found(img.size, "primary", searchAuthor))
                  ELSE Within("olDirect", searchAuthor)
    /\ UNCHANGED tried
    /\ CoverFrame

\* tryOpenLibrary: fetchUrl(directUrl)
OlDirect ==
    /\ pc = "olDirect"
    /\ \E img \in ImageResponses :
          /\ Request(~img.ok, Image("direct", img.size))
          /\ IF ~img.ok THEN OlCatch
             ELSE IF AcceptedByOpenLibrary(img.size)
                  THEN OlReturns(Found(img.size, "direct", Null))
                  ELSE OlReturns(NoResult)
    /\ UNCHANGED tried
    /\ CoverFrame

\* tryGoogleBooks: fetchJson(searchUrl); imageLinks without any variant
\* makes .replace throw, which the catch swallows.
GbSearch ==
    /\ pc = "gbSearch"
    /\ tried' = Append(tried, Query("secondary", k, isbns[k]))
    /\ \E resp \in SearchResponses :
          /\ Request(resp.kind = "error", NoImage)
          /\ IF resp.kind = "error" THEN GbCatch
             ELSE IF resp.kind = "hit" /\ resp.cover
                  THEN IF resp.link THEN Within("gbImage", resp.author)
                       ELSE GbCatch
                  ELSE GbReturns(NoResult)
    /\ CoverFrame

\* tryGoogleBooks: fetchUrl(imageUrl)
GbImage ==
    /\ pc = "gbImage"
    /\ \E img \in ImageResponses :
          /\ Request(~img.ok, Image("secondary", img.size))
          /\ IF ~img.ok THEN GbCatch
             ELSE IF AcceptedByGoogleBooks(img.size)
                  THEN GbReturns(Found(img.size, "secondary", searchAuthor))
                  ELSE GbReturns(NoResult)
    /\ UNCHANGED tried
    /\ CoverFrame

\* tryOpenLibraryTitleSearch: fetchJson(searchUrl)
TitleSearch ==
    /\ pc = "titleSearch"
    /\ tried' = Append(tried, Query("title", 0, <<>>))
    /\ \E resp \in SearchResponses :
          /\ Request(resp.kind = "error", NoImage)
          /\ IF resp.kind = "error" THEN TitleCatch
             ELSE IF resp.kind = "hit" /\ resp.cover
                  THEN Within("titleCover", resp.author)
                  ELSE TitleReturns(NoResult)
    /\ CoverFrame

\* tryOpenLibraryTitleSearch: fetchUrl(coverUrl)
TitleCover ==
    /\ pc = "titleCover"
    /\ \E img \in ImageResponses :
          /\ Request(~img.ok, Image("title", img.size))
          /\ IF ~img.ok THEN TitleCatch
             ELSE IF AcceptedByOpenLibrary(img.size)
                  THEN TitleReturns(Found(img.size, "title", searchAuthor))
                  ELSE TitleReturns(NoResult)
    /\ UNCHANGED tried
    /\ CoverFrame

(***************************************************************************)
(* main, after the cover stages.                                           *)
(***************************************************************************)
\* if (result) { fs.writeFileSync(coverPath, result.buffer); coversMap[book.id] = ... }
SaveCover ==
    /\ pc = "resolve"
    /\ result.found
    /\ files' = files \cup {book.id}
    /\ coversMap' = Put(coversMap, book.id, Entry(CoverPath(book.id), result.author))
    /\ lastWrite' = [id |-> book.id, size |-> result.size, src |-> result.src]
    /\ pc' = "delay"
    /\ UNCHANGED <<bookbeat, coversFile, books, i, existingCoversMap, k,
                   searchAuthor, result, runs, netBooks, tried, accepted,
                   hadFile, hadNoCoverAuthor, received, dropped, sawFailure>>

\* else { const author = await tryGetAuthorOnly(book.isbns, book.title); ... }
NoCoverFound ==
    /\ pc = "resolve"
    /\ ~result.found
    /\ pc' = FirstAuthorStage(Len(isbns)).pc
    /\ k' = FirstAuthorStage(Len(isbns)).k
    /\ received' = NoImage
    /\ UNCHANGED <<disk, books, i, existingCoversMap, coversMap, searchAuthor,
                   result, runs, netBooks, tried, accepted, hadFile,
                   hadNoCoverAuthor, lastWrite, dropped, sawFailure>>

\* What the author stages leave alone.
AuthorFrame ==
    UNCHANGED <<disk, books, i, existingCoversMap, searchAuthor, result, runs,
                tried, accepted, hadFile, hadNoCoverAuthor, lastWrite, dropped>>

\* tryGetAuthorOnly returns author; coversMap[book.id] = { path: null, author: author }
AuthorReturns(author) ==
    /\ coversMap' = Put(coversMap, book.id, Entry(NullPath, author))
    /\ pc' = "delay"
    /\ k' = 0

\* tryGetAuthorOnly goes on with the next ISBN, or with the title search.
AuthorContinues ==
    /\ pc' = AfterAuthorGb(k, Len(isbns)).pc
    /\ k' = AfterAuthorGb(k, Len(isbns)).k
    /\ UNCHANGED coversMap

\* tryGetAuthorOnly: fetchJson of the Google Books search of one ISBN
AuthorGb ==
    /\ pc = "authorGb"
    /\ \E resp \in SearchResponses :
          /\ Request(resp.kind = "error", NoImage)
          /\ IF resp.kind = "hit" /\ resp.author # Null
             THEN AuthorReturns(resp.author)
             ELSE AuthorContinues
    /\ AuthorFrame

\* tryGetAuthorOnly: fetchJson of the Open Library title search
AuthorTitle ==
    /\ pc = "authorTitle"
    /\ \E resp \in SearchResponses :
          /\ Request(resp.kind = "error", NoImage)
          /\ IF resp.kind = "hit"
             THEN AuthorReturns(resp.author)
             ELSE AuthorReturns(Null)
    /\ AuthorFrame

\* await new Promise(resolve => setTimeout(resolve, DELAY_BETWEEN_REQUESTS))
Delay ==
    /\ pc = "delay"
    /\ pc' = "loop"
    /\ i' = i + 1
    /\ k' = 0
    /\ result' = NoResult
    /\ tried' = <<>>
    /\ accepted' = FALSE
    /\ lastWrite' = NoWrite
    /\ received' = NoImage
    /\ UNCHANGED <<disk, books, existingCoversMap, coversMap, searchAuthor, runs,
                   netBooks, hadFile, hadNoCoverAuthor, dropped, sawFailure>>

\* fs.writeFileSync(COVERS_MAP_FILE, JSON.stringify(coversMap, null, 2))
WriteCoversMap ==
    /\ pc = "loop"
    /\ i > Len(books)
    /\ coversFile' = coversMap
    /\ pc' = "idle"
    /\ books' = <<>>
    /\ i' = 0
    /\ existingCoversMap' = EmptyMap
    /\ coversMap' = EmptyMap
    /\ prevEnd' = "complete"
    /\ prevResolved' = Resolved(coversMap)
    /\ netBooks' = {}
    /\ hadFile' = {}
    /\ hadNoCoverAuthor' = {}
    /\ lastWrite' = NoWrite
    /\ dropped' = DOMAIN coversFile \ DOMAIN coversFile'
    /\ UNCHANGED <<bookbeat, files, k, searchAuthor, result, run, exports,
                   mode, tried, accepted, received, sawFailure>>

\* searchData.docs[0].author_name?.[0], from the search of tryOpenLibrary
\* to the entry of the book: it is in scope while the cover and the direct
\* URL are fetched, and is noted with an image of Open Library until the
\* entry of the book is written.
ObserveOffered ==
    offered' =
        IF pc' \in {"olCover", "olDirect"} THEN searchAuthor'
        ELSE IF pc \in {"olCover", "olDirect"} /\ result'.found
             THEN searchAuthor
             ELSE IF pc = "resolve" /\ pc' = "delay" THEN offered
                  ELSE Null

\* A query of tryGetAuthorOnly, with the author it gave (null for none).
AuthorQuery(stage, index, isbn, author) ==
    [stage |-> stage, idx |-> index, isbn |-> isbn, author |-> author]

\* if (author) return author: the call returns, and main writes the entry.
Returned == IF pc' = "delay" THEN coversMap'[book.id].author ELSE Null

\* The queries tryGetAuthorOnly has made for the book, until the delay.
ObserveAuthorQueries ==
    authorTried' =
        IF pc = "authorGb" /\ pc' # "idle"
        THEN Append(authorTried,
                    AuthorQuery("secondary", k, isbns[k], Returned))
        ELSE IF pc = "authorTitle" /\ pc' # "idle"
             THEN Append(authorTried, AuthorQuery("title", 0, <<>>, Returned))
             ELSE <<>>

\* The places of main and of the try functions at an await fetchJson or
\* await fetchUrl.
RequestStages ==
    {"olSearch", "olCover", "olDirect", "gbSearch", "gbImage", "titleSearch",
     "titleCover", "authorGb", "authorTitle"}

\* The step is a request (with its response) of the book in hand.
IsRequest == pc \in RequestStages /\ pc' # "idle"

\* The step is the await of setTimeout at the end of the loop body.
IsDelay == pc = "delay" /\ pc' = "loop"

\* A setTimeout that resolves at once.
ElapsedNothing(ms) == ms

\* setTimeout(resolve, DELAY_BETWEEN_REQUESTS)
Elapsed(ms) == ms + DELAY_BETWEEN_REQUESTS

\* The book of the last request of the run, and the delay since.
ObserveDelays ==
    /\ lastNet' = IF IsRequest THEN i ELSE IF pc' = "idle" THEN 0 ELSE lastNet
    /\ waited' = IF IsRequest \/ pc' = "idle" THEN 0
                 ELSE IF IsDelay THEN Elapsed(waited)
                 ELSE waited

Observe == ObserveOffered /\ ObserveAuthorQueries /\ ObserveDelays

Next ==
    \/ Export /\ Observe /\ UNCHANGED <<page, wire>>
    \/ Interrupt /\ Observe /\ UNCHANGED <<page, wire>>
    \/ StartRun /\ Observe /\ UNCHANGED <<page, wire>>
    \/ SkipCached /\ Observe /\ UNCHANGED <<page, wire>>
    \/ SkipNoCoverWithAuthor /\ Observe /\ UNCHANGED <<page, wire>>
    \/ BeginFetch /\ Observe /\ UNCHANGED <<page, wire>>
    \/ OlSearch /\ Observe /\ UNCHANGED <<page, wire>>
    \/ OlCover /\ Observe /\ UNCHANGED <<page, wire>>
    \/ OlDirect /\ Observe /\ UNCHANGED <<page, wire>>
    \/ GbSearch /\ Observe /\ UNCHANGED <<page, wire>>
    \/ GbImage /\ Observe /\ UNCHANGED <<page, wire>>
    \/ TitleSearch /\ Observe /\ UNCHANGED <<page, wire>>
    \/ TitleCover /\ Observe /\ UNCHANGED <<page, wire>>
    \/ SaveCover /\ Observe /\ UNCHANGED <<page, wire>>
    \/ NoCoverFound /\ Observe /\ UNCHANGED <<page, wire>>
    \/ AuthorGb /\ Observe /\ UNCHANGED <<page, wire>>
    \/ AuthorTitle /\ Observe /\ UNCHANGED <<page, wire>>
    \/ Delay /\ Observe /\ UNCHANGED <<page, wire>>
    \/ WriteCoversMap /\ Observe /\ UNCHANGED <<page, wire>>

Spec == Init /\ [][Next]_vars

(***************************************************************************)
(* The run with its requests on the wire: fetchUrl sends a request with    *)
(* client.get and its promise settles on the response. A step of a try     *)
(* function above is the response to the request its await is waiting for. *)
(***************************************************************************)

\* The address asked for, and the address of a Location header.
Urls == {"asked", "moved"}

\* A fetchUrl that is called without await.
MayIssueAlways == TRUE

\* await fetchUrl(...): the caller is suspended until the promise settles, so
\* the next client.get is not reached while a request is in flight.
MayIssue == outstanding = 0

\* client.get(url, ...)
Send ==
    /\ pc \in RequestStages
    /\ MayIssue
    /\ outstanding' = outstanding + 1
    /\ url' = "asked"
    /\ UNCHANGED <<disk, pc, memory, runs, history, page>>

\* The response has a 3xx status and a Location header: fetchUrl is called on
\* the location and the promise settles as that call does.
Redirect ==
    /\ pc \in RequestStages
    /\ outstanding > 0
    /\ \E location \in Urls \ {url} : url' = location
    /\ UNCHANGED <<disk, pc, memory, runs, history, outstanding, page>>

\* The response is final (a body, or a status that rejects): the promise
\* settles and the caller resumes.
Received ==
    /\ outstanding > 0
    /\ outstanding' = outstanding - 1
    /\ url' = "asked"

NetNext ==
    \/ Send
    \/ Redirect
    \/ StartRun /\ Observe /\ UNCHANGED <<page, wire>>
    \/ SkipCached /\ Observe /\ UNCHANGED <<page, wire>>
    \/ SkipNoCoverWithAuthor /\ Observe /\ UNCHANGED <<page, wire>>
    \/ BeginFetch /\ Observe /\ UNCHANGED <<page, wire>>
    \/ OlSearch /\ Received /\ Observe /\ UNCHANGED page
    \/ OlCover /\ Received /\ Observe /\ UNCHANGED page
    \/ OlDirect /\ Received /\ Observe /\ UNCHANGED page
    \/ GbSearch /\ Received /\ Observe /\ UNCHANGED page
    \/ GbImage /\ Received /\ Observe /\ UNCHANGED page
    \/ TitleSearch /\ Received /\ Observe /\ UNCHANGED page
    \/ TitleCover /\ Received /\ Observe /\ UNCHANGED page
    \/ SaveCover /\ Observe /\ UNCHANGED <<page, wire>>
    \/ NoCoverFound /\ Observe /\ UNCHANGED <<page, wire>>
    \/ AuthorGb /\ Received /\ Observe /\ UNCHANGED page
    \/ AuthorTitle /\ Received /\ Observe /\ UNCHANGED page
    \/ Delay /\ Observe /\ UNCHANGED <<page, wire>>
    \/ WriteCoversMap /\ Observe /\ UNCHANGED <<page, wire>>

NetSpec == Init /\ [][NetNext]_vars

\* Every request gets a response and every statement that can run does: some
\* step is taken whenever one is possible.
LiveSpec == NetSpec /\ WF_vars(NetNext)

(***************************************************************************)
(* The page: init. The pipeline is at rest while the page is looked at;    *)
(* loadBooks of the pipeline is applied to the export the page reads.      *)
(***************************************************************************)
PageInit ==
    /\ PipelineInit
    /\ bookbeat = <<>>
    /\ pageData \in PageExports
    /\ step = "start"
    /\ finishedBooks = <<>>
    /\ savedBooks = <<>>
    /\ yearGroups = NotRendered
    /\ loaded = NotLoaded

\* const data = await loadData(); if (!data) { ...; return; }
LoadData ==
    /\ step = "start"
    /\ \E ok \in BOOLEAN : step' = IF ok THEN "loaded" ELSE "nodata"
    /\ UNCHANGED <<pageData, finishedBooks, savedBooks, yearGroups, loaded>>
    /\ UNCHANGED pipeline

\* processBooks(data): .map of undefined raises a TypeError.
ProcessBooks ==
    /\ step = "loaded"
    /\ LET finishedRaw == findCategory(pageData, "myfinishedbooks")
           savedRaw == findCategory(pageData, "mysavedbooks")
       IN  IF ~finishedRaw.defined
           THEN /\ step' = "raised"
                /\ UNCHANGED <<finishedBooks, savedBooks>>
           ELSE /\ finishedBooks' = FinishedBooks(finishedRaw.books)
                /\ IF ~savedRaw.defined
                   THEN step' = "raised" /\ UNCHANGED savedBooks
                   ELSE /\ savedBooks' = SavedBooks(savedRaw.books)
                        /\ step' = "processed"
    /\ UNCHANGED <<pageData, yearGroups, loaded>>
    /\ UNCHANGED pipeline

\* renderBooks(): renderBooksByYear of both lists
RenderBooks ==
    /\ step = "processed"
    /\ yearGroups' = [finished |-> groupByYear(finishedBooks),
                      saved |-> groupByYear(savedBooks)]
    /\ step' = "rendered"
    /\ UNCHANGED <<pageData, finishedBooks, savedBooks, loaded>>
    /\ UNCHANGED pipeline

\* const books = loadBooks(), on the export the page reads
LoadBooksOfExport ==
    /\ ~loaded.run
    /\ LET outcome == LoadBooksOf(pageData)
       IN  loaded' = [run |-> TRUE, raised |-> outcome.raised,
                      books |-> outcome.books]
    /\ UNCHANGED <<pageData, step, finishedBooks, savedBooks, yearGroups>>
    /\ UNCHANGED pipeline

PageNext ==
    \/ LoadData
    \/ ProcessBooks
    \/ RenderBooks
    \/ LoadBooksOfExport

PageSpec == PageInit /\ [][PageNext]_vars

(***************************************************************************)
(* Properties.                                                             *)
(***************************************************************************)
\* The last run on the present export went through and wrote covers.json.
Completed == pc = "idle" /\ prevEnd = "complete"

\* The run is at the end of its loop, before the write of covers.json.
AtEndOfLoop == pc = "loop" /\ i > Len(books)

\* The step that writes covers.json.
WriteStep == pc = "loop" /\ pc' = "idle" /\ prevEnd' = "complete"

\* The raw entries of the two buckets the fetcher reads.
RawBooksOf(data) ==
    UNION { { BooksOf(data[c])[b] : b \in 1..Len(BooksOf(data[c])) } :
              c \in { c \in 1..Len(data) :
                        data[c].type \in {"myfinishedbooks", "mysavedbooks"} } }

HasTitle(raw) == "title" \in DOMAIN raw /\ raw.title # ""

HasISBN(raw) ==
    /\ "editions" \in DOMAIN raw
    /\ \E e \in 1..Len(raw.editions) : raw.editions[e].isbn # <<>>

\* The position of the first book of a list with a given id.
FirstPos(list, id) ==
    CHOOSE n \in 1..Len(list) :
        list[n].id = id /\ \A m \in 1..(n - 1) : list[m].id # id

\* The cover queries of a book with the given ISBNs, in cascade order.
CascadeOrder(list) ==
    [n \in 1..(2 * Len(list) + 1) |->
        IF n <= Len(list) THEN Query("primary", n, list[n])
        ELSE IF n <= 2 * Len(list)
             THEN Query("secondary", n - Len(list), list[n - Len(list)])
             ELSE Query("title", 0, <<>>)]

\* The minimum byte length of the source an image came from.
MinBytes(src) == IF src = "secondary" THEN GB_MIN_BYTES ELSE OL_MIN_BYTES

TooSmall(image) ==
    image.src \notin {"none", "error"} /\ image.size < MinBytes(image.src)

(* C1, as stated: a run on the export, the map and the files that a        *)
(* complete run left issues no request at all.                             *)
C1_SecondRunIssuesNoRequest == mode = "complete" => netBooks = {}

(* C1, amended: a run on the export, the map and the files that a complete *)
(* run left issues requests exactly for the books for which that run found *)
(* neither an image nor an author; every other book takes the SKIP_CACHED  *)
(* or the SKIP_NO_COVER_WITH_AUTHOR branch without any request.            *)
C1_SecondRunRequestsOnlyUnresolved ==
    (mode = "complete" /\ pc # "idle") =>
        /\ netBooks \cap prevResolved = {}
        /\ \A id \in DOMAIN coversMap :
              IF id \in prevResolved
              THEN id \in hadFile \cup hadNoCoverAuthor
              ELSE id \in netBooks

\* A second run over two books, one cached and one without cover but with
\* author, at the end of its loop with no request issued.
C1_Witness ==
    /\ mode = "complete"
    /\ AtEndOfLoop
    /\ Len(books) = 2
    /\ hadFile # {}
    /\ hadNoCoverAuthor # {}
    /\ netBooks = {}

(* C2: a run restarted on the same export after an interrupted run issues  *)
(* no request for a book the interrupted run had resolved, with an image   *)
(* or with an author only.                                                 *)
C2_RestartIssuesNoRequestForResolved ==
    mode = "interrupted" => netBooks \cap prevResolved = {}

(* C3: SKIP_CACHED: a book whose image file exists when it is processed    *)
(* gets no request, and its entry has the path covers/<id>.jpg and the     *)
(* author of the entry loaded for its id (null without one), in every run. *)
C3_SkipCached ==
    \A id \in hadFile :
        /\ id \notin netBooks
        /\ id \in DOMAIN coversMap
        /\ coversMap[id].path = CoverPath(id)
        /\ coversMap[id].author =
              IF id \in DOMAIN existingCoversMap
              THEN existingCoversMap[id].author
              ELSE Null

\* A cached book whose loaded entry carries an author.
C3_Witness ==
    \E id \in hadFile :
        /\ id \in DOMAIN existingCoversMap
        /\ existingCoversMap[id].author \in Authors

(* C4: SKIP_NO_COVER_WITH_AUTHOR: a book without image file whose loaded   *)
(* entry has path = null and an author gets no request, and its entry is   *)
(* the loaded one, unchanged, in every run.                                *)
C4_SkipNoCoverWithAuthor ==
    \A id \in hadNoCoverAuthor :
        /\ id \notin netBooks
        /\ id \notin files
        /\ id \in DOMAIN coversMap
        /\ coversMap[id] = existingCoversMap[id]
        /\ coversMap[id].path = NullPath
        /\ coversMap[id].author \in Authors

\* A book skipped for having an author and no cover, with the run at its end.
C4_Witness == hadNoCoverAuthor # {} /\ AtEndOfLoop

(* C5: the cover queries of a book are issued in cascade order: the        *)
(* primary source for every ISBN in list order, then the secondary source  *)
(* for every ISBN in list order, then the title search; and once a stage   *)
(* has returned an accepted image no further request is issued for the     *)
(* book.                                                                   *)
C5_CascadeOrder ==
    /\ [](tried # <<>> =>
             /\ i \in 1..Len(books)
             /\ Len(tried) <= 2 * Len(isbns) + 1
             /\ tried = SubSeq(CascadeOrder(isbns), 1, Len(tried)))
    /\ [](accepted => result.found /\ pc \in {"resolve", "delay"})
    /\ [][accepted => tried' \in {tried, <<>>} /\ netBooks' \subseteq netBooks]_vars

\* An image accepted at the secondary source for the second of two ISBNs.
C5_Witness ==
    /\ accepted
    /\ i \in 1..Len(books)
    /\ Len(isbns) = 2
    /\ Len(tried) = 4
    /\ tried[4].stage = "secondary"

(* C6: an image below the minimum of its source (1000 bytes for the        *)
(* primary source and the title search, 2000 for the secondary source) is  *)
(* never returned as a result, written as a cover or recorded as a path,   *)
(* and after its rejection the cascade is at the next candidate: the       *)
(* direct-by-ISBN endpoint, the next ISBN or the next source.              *)
C6_ImageSizeRejection ==
    /\ ~TooSmall(lastWrite)
    /\ (result.found => result.size >= MinBytes(result.src))
    /\ (pc = "delay" /\ coversMap[book.id].path # NullPath =>
           lastWrite.id = book.id /\ book.id \in files)
    /\ (TooSmall(received) =>
           /\ ~result.found
           /\ received.src = "primary" => pc = "olDirect"
           /\ received.src = "direct" =>
                 (pc = "olSearch" /\ k > 1) \/ (pc = "gbSearch" /\ k = 1)
           /\ received.src = "secondary" =>
                 (pc = "gbSearch" /\ k > 1) \/ pc = "titleSearch"
           /\ received.src = "title" => pc = "resolve")

\* An image of the secondary source below 2000 bytes (and above 1000) was
\* rejected and the title search is next.
C6_Witness ==
    /\ received = Image("secondary", OL_MIN_BYTES + 1)
    /\ pc = "titleSearch"

(* C7: a failed request is never fatal: it counts as no result and main    *)
(* goes on with the next ISBN, source or book; every book before the       *)
(* current one has its entry; and the map a run writes has an entry for    *)
(* every book that loadBooks returns.                                      *)
C7_SourceFailuresNotFatal ==
    /\ pc # "crashed"
    /\ (received = Failure =>
           /\ ~result.found
           /\ pc \in {"olSearch", "gbSearch", "titleSearch", "resolve",
                      "authorGb", "authorTitle", "delay"})
    /\ (pc # "idle" =>
           \A n \in 1..Len(books) : n < i => books[n].id \in DOMAIN coversMap)
    /\ (Completed => DOMAIN coversFile = IdsOf(LoadBooks(bookbeat)))

\* A run with failed requests went through and wrote a map of two books
\* without cover and without author.
C7_Witness ==
    /\ Completed
    /\ sawFailure
    /\ Cardinality(DOMAIN coversFile) = 2
    /\ \A id \in DOMAIN coversFile : coversFile[id] = Entry(NullPath, Null)

(* C8, as stated: after a complete run every book of the two buckets that  *)
(* has a title has an entry in covers.json.                                *)
C8_EveryTitledBookHasEntry ==
    Completed =>
        \A raw \in RawBooksOf(bookbeat) :
            HasTitle(raw) => IdOf(raw) \in DOMAIN coversFile

(* C8, amended: after a complete run covers.json has an entry exactly for  *)
(* the ids of the books of the two buckets that have a title and an        *)
(* edition carrying an ISBN; a book whose edition list is missing, empty   *)
(* or without ISBN is not loaded and gets no entry of its own.             *)
C8_BooksWithISBNHaveEntry ==
    Completed =>
        DOMAIN coversFile =
            { IdOf(raw) : raw \in { x \in RawBooksOf(bookbeat) :
                                      HasTitle(x) /\ HasISBN(x) } }

\* A complete run left a titled book without ISBN without entry, beside a
\* book with an entry.
C8_Witness ==
    /\ Completed
    /\ coversFile # EmptyMap
    /\ \E raw \in RawBooksOf(bookbeat) :
          HasTitle(raw) /\ ~HasISBN(raw) /\ IdOf(raw) \notin DOMAIN coversFile

(* C9, as stated: the write of covers.json leaves every entry of the old   *)
(* map whose id is not among the books of the run present and unchanged.   *)
C9_OtherEntriesKept ==
    [][WriteStep =>
          \A id \in DOMAIN coversFile \ IdsOf(books) :
              id \in DOMAIN coversFile' /\ coversFile'[id] = coversFile[id]]_vars

(* C9, amended: the map written at the end of a run is a new map that      *)
(* holds exactly one entry per book of the run (the old map is only read); *)
(* an entry of the old map whose id is not among the books of the run is   *)
(* absent from covers.json after the run.                                  *)
C9_MapRebuiltFromBooksOfRun ==
    [][WriteStep =>
          /\ coversFile' = coversMap
          /\ DOMAIN coversFile' = IdsOf(books)
          /\ \A id \in DOMAIN coversFile \ IdsOf(books) :
                id \notin DOMAIN coversFile']_vars

\* A complete run whose write left out an entry of the old map.
C9_Witness == Completed /\ dropped # {} /\ coversFile # EmptyMap

(* C10: the books of a run hold each id once; they are the first           *)
(* occurrences, in order, of the ids among the entries loadBooks pushed    *)
(* (file order); requests are issued only for these books and with the     *)
(* ISBNs of the kept occurrence.                                           *)
C10_DuplicatesRemoved ==
    pc # "idle" =>
        LET pushed == CollectBooks(bookbeat)
        IN  /\ \A a, b \in 1..Len(books) : a # b => books[a].id # books[b].id
            /\ IdsOf(books) = IdsOf(pushed)
            /\ \A n \in 1..Len(books) :
                  books[n] = pushed[FirstPos(pushed, books[n].id)]
            /\ \A a, b \in 1..Len(books) :
                  a < b => FirstPos(pushed, books[a].id) < FirstPos(pushed, books[b].id)
            /\ netBooks \subseteq { books[n].id : n \in 1..Len(books) }
            /\ \A q \in 1..Len(tried) :
                  tried[q].stage \in {"primary", "secondary"} =>
                      /\ i \in 1..Len(books)
                      /\ tried[q].isbn = books[i].isbns[tried[q].idx]

\* Three pushed entries, two books kept, and a query out for the second
\* ISBN of a kept book.
C10_Witness ==
    /\ pc # "idle"
    /\ Len(CollectBooks(bookbeat)) = 3
    /\ Len(books) = 2
    /\ Len(tried) >= 2
    /\ netBooks # {}

(***************************************************************************)
(* Properties of the page, under PageSpec.                                 *)
(***************************************************************************)
\* processBooks has returned.
Processed == step \in {"processed", "rendered"}

\* The raw entries of the two buckets of the export of the page.
FinishedRaw == findCategory(pageData, "myfinishedbooks").books
SavedRaw == findCategory(pageData, "mysavedbooks").books

\* The finished bucket holds one book with editions, and the book is shown.
OneBook ==
    /\ Processed
    /\ Len(FinishedRaw) = 1
    /\ "editions" \in DOMAIN FinishedRaw[1]
    /\ Len(finishedBooks) = 1

TheEditions == FinishedRaw[1].editions
TheIsbns == finishedBooks[1].isbns

\* The normal form of a raw ISBN, written from the regular expression:
\* every character that is a digit or the letter X of either case, in order.
NormalOf(raw) ==
    LET IsDigitOrX(c) == c \in Digits \/ c = "X" \/ c = "x"
    IN  SelectSeq(raw, IsDigitOrX)

HasIsbn(edition) == edition.isbn # <<>>
TaggedEBook(edition) == edition.type = "eBook" \/ edition.format = "eBook"
TaggedAudioBook(edition) ==
    edition.type = "audioBook" \/ edition.format = "audioBook"

\* The editions that yield the value v, and the best class among them:
\* 1 for eBook, 2 for audioBook, 3 for any other edition.
Yielding(editions, v) ==
    { n \in 1..Len(editions) :
          HasIsbn(editions[n]) /\ NormalOf(editions[n].isbn) = v }

Rank(editions, v) ==
    IF \E n \in Yielding(editions, v) : TaggedEBook(editions[n]) THEN 1
    ELSE IF \E n \in Yielding(editions, v) : TaggedAudioBook(editions[n])
         THEN 2
         ELSE 3

\* The first edition of the class of v that yields v.
FirstOfRank(editions, v) ==
    LET r == Rank(editions, v)
        InClass(n) == \/ r = 1 /\ TaggedEBook(editions[n])
                      \/ r = 2 /\ TaggedAudioBook(editions[n])
                      \/ r = 3
        S == { n \in Yielding(editions, v) : InClass(n) }
    IN  CHOOSE n \in S : \A m \in S : n <= m

\* The ISBNs of the eBook editions, in the order of the editions.
RECURSIVE EBookIsbns(_)
EBookIsbns(editions) ==
    IF editions = <<>> THEN <<>>
    ELSE (IF TaggedEBook(Head(editions)) /\ HasIsbn(Head(editions))
          THEN <<NormalOf(Head(editions).isbn)>> ELSE <<>>)
         \o EBookIsbns(Tail(editions))

(* C11: the list of ISBNs extracted from a list of editions holds the ISBN *)
(* of every edition that has one and nothing else; the ISBNs of the eBook  *)
(* editions come first, in the order of the editions, then those that only *)
(* audioBook editions yield, then those of the other editions, each class  *)
(* in the order of the editions, whatever the order of the editions in the *)
(* input: an audioBook edition followed by an eBook edition yields the     *)
(* ISBN of the eBook first.                                                *)
C11_ExtractionPriority ==
    OneBook =>
        /\ { TheIsbns[p] : p \in 1..Len(TheIsbns) }
             = { NormalOf(TheEditions[n].isbn) :
                     n \in { m \in 1..Len(TheEditions) :
                                 HasIsbn(TheEditions[m]) } }
        /\ \A p, q \in 1..Len(TheIsbns) :
               p < q => Rank(TheEditions, TheIsbns[p])
                            <= Rank(TheEditions, TheIsbns[q])
        /\ SubSeq(TheIsbns, 1, Len(EBookIsbns(TheEditions)))
             = EBookIsbns(TheEditions)
        /\ \A p, q \in 1..Len(TheIsbns) :
               /\ p < q
               /\ Rank(TheEditions, TheIsbns[p]) > 1
               /\ Rank(TheEditions, TheIsbns[p])
                    = Rank(TheEditions, TheIsbns[q])
               => FirstOfRank(TheEditions, TheIsbns[p])
                    < FirstOfRank(TheEditions, TheIsbns[q])

\* An audioBook edition comes before an eBook edition with another ISBN,
\* and the list extracted starts with the ISBN of the eBook.
C11_Witness ==
    /\ OneBook
    /\ Len(TheEditions) = 2
    /\ TheEditions[1].type = "audioBook"
    /\ TheEditions[1].isbn = RawIsbnA
    /\ TheEditions[2].type = "eBook"
    /\ TheEditions[2].isbn = RawIsbnE
    /\ TheIsbns = <<NormalOf(RawIsbnE), NormalOf(RawIsbnA)>>

(* C12, as stated: the list of ISBNs extracted from a list of editions,    *)
(* whatever the types of the editions, holds no normalized value more than *)
(* once.                                                                   *)
C12_NoDuplicateISBN ==
    OneBook =>
        \A p, q \in 1..Len(TheIsbns) : p # q => TheIsbns[p] # TheIsbns[q]

\* The characters of the normal form the spec describes: digits and X.
UpperCaseNormal(isbn) ==
    \A n \in 1..Len(isbn) : isbn[n] \in Digits \cup {"X"}

(* C13, as stated: every normalized ISBN, in the records of the page and   *)
(* in the books the pipeline loads, consists of digits and the upper-case  *)
(* letter X only, a lower-case x of the raw value being upper-cased.       *)
C13_NormalFormUpperCase ==
    /\ Processed =>
           \A n \in 1..Len(finishedBooks) :
               \A p \in 1..Len(finishedBooks[n].isbns) :
                   UpperCaseNormal(finishedBooks[n].isbns[p])
    /\ loaded.run =>
           \A n \in 1..Len(loaded.books) :
               \A p \in 1..Len(loaded.books[n].isbns) :
                   UpperCaseNormal(loaded.books[n].isbns[p])

(* C14: normalizing is idempotent: for the raw ISBN of every edition,      *)
(* cleanISBN of its normal form is its normal form, and every ISBN of the  *)
(* list extracted is left as it is by cleanISBN.                           *)
C14_NormalizationIdempotent ==
    OneBook =>
        /\ \A n \in 1..Len(TheEditions) :
               cleanISBN(cleanISBN(TheEditions[n].isbn))
                 = cleanISBN(TheEditions[n].isbn)
        /\ \A p \in 1..Len(TheIsbns) : cleanISBN(TheIsbns[p]) = TheIsbns[p]

\* A raw ISBN with two separators has been normalized to its two digits.
C14_Witness ==
    /\ OneBook
    /\ Len(TheEditions) = 1
    /\ TheEditions[1].isbn = RawIsbnD
    /\ TheIsbns = << <<"9", "1">> >>
    /\ cleanISBN(TheIsbns[1]) = TheIsbns[1]

\* A raw entry has a title and a date that parses.
Complete(title, dateString) == title # "" /\ dateString.kind = "date"

\* A raw entry has a title and a date that parses to a year other than 0.
CompleteInYearNot0(title, dateString) ==
    Complete(title, dateString) /\ dateString.year # 0

\* What tells the records of a list, and the raw entries, apart.
Shown(list) ==
    { [title |-> list[n].title, when |-> list[n].when] :
          n \in 1..Len(list) }

FinishedWhere(Test(_, _)) ==
    { n \in 1..Len(FinishedRaw) :
          Test(FinishedRaw[n].title, FinishedRaw[n].finishedDate) }

SavedWhere(Test(_, _)) ==
    { n \in 1..Len(SavedRaw) : Test(SavedRaw[n].title, SavedRaw[n].date) }

\* The two lists hold the records of the raw entries that pass Test, one
\* record for each, and no other record.
ListsHoldExactly(Test(_, _)) ==
    /\ Len(finishedBooks) = Cardinality(FinishedWhere(Test))
    /\ Shown(finishedBooks)
         = { [title |-> FinishedRaw[n].title,
              when |-> FinishedRaw[n].finishedDate] :
                 n \in FinishedWhere(Test) }
    /\ Len(savedBooks) = Cardinality(SavedWhere(Test))
    /\ Shown(savedBooks)
         = { [title |-> SavedRaw[n].title, when |-> SavedRaw[n].date] :
                 n \in SavedWhere(Test) }

(* C15, as stated: the finished list and the saved list hold exactly the   *)
(* records of the raw entries that have a title and a parseable date in    *)
(* the date field of the bucket; no entry that has both is dropped.        *)
C15_ExactlyTitledAndDated == Processed => ListsHoldExactly(Complete)

(* C15, amended: the two lists hold exactly the records of the raw entries *)
(* that have a title and a date that parses to a year other than 0; an     *)
(* entry without title, without date, with a date that does not parse or   *)
(* with a date of the year 0 is never in a list.                           *)
C15_ExactlyTitledAndYearNot0 ==
    Processed => ListsHoldExactly(CompleteInYearNot0)

\* Of two finished entries one is kept; the other one has no title, or no
\* date, or a date that does not parse.
C15_Witness ==
    /\ Processed
    /\ Len(FinishedRaw) = 2
    /\ Len(finishedBooks) = 1
    /\ \E n \in 1..2 :
           /\ ~Complete(FinishedRaw[n].title, FinishedRaw[n].finishedDate)
           /\ Complete(FinishedRaw[3 - n].title,
                       FinishedRaw[3 - n].finishedDate)
           /\ finishedBooks[1].title = FinishedRaw[3 - n].title

\* a >= b, for two dates that parse.
NotEarlier(a, b) ==
    a.year > b.year \/ (a.year = b.year /\ a.day >= b.day)

DateDescending(list) ==
    \A n \in 1..(Len(list) - 1) : NotEarlier(list[n].when, list[n + 1].when)

(* C16: the finished list and the saved list are each sorted by their date *)
(* field in descending order: of two adjacent records the first one has    *)
(* the date that is later or the same.                                     *)
C16_DateDescending ==
    Processed => DateDescending(finishedBooks) /\ DateDescending(savedBooks)

\* Two finished entries came in ascending order of date and are shown with
\* the later one first.
C16_Witness ==
    /\ Processed
    /\ Len(FinishedRaw) = 2
    /\ Len(finishedBooks) = 2
    /\ FinishedRaw[1].finishedDate.year < FinishedRaw[2].finishedDate.year
    /\ finishedBooks[1].when = FinishedRaw[2].finishedDate
    /\ finishedBooks[2].when = FinishedRaw[1].finishedDate

(* C17, as stated: a raw entry of either bucket that carries one of the    *)
(* fields bookId and bookid never ends up with a missing id, in the        *)
(* records of the page and in the books the pipeline loads.                *)
C17_IdFromEitherField ==
    /\ Processed =>
           /\ \A n \in 1..Len(finishedBooks) : finishedBooks[n].bookId # ""
           /\ \A n \in 1..Len(savedBooks) : savedBooks[n].bookId # ""
    /\ loaded.run => \A n \in 1..Len(loaded.books) : loaded.books[n].id # ""

\* Every bucket of an export of the array shape has its list of books.
BucketsHaveBooks ==
    pageData.isArray =>
        \A n \in 1..Len(pageData.items) : "books" \in DOMAIN pageData.items[n]

\* The raw entries of the bucket of a type, by the shape of the export: the
\* books of the first category of the type, the value of the key; the empty
\* list when the export has no such bucket.
EntriesOf(type) ==
    IF pageData.isArray
    THEN LET S == { n \in 1..Len(pageData.items) :
                        pageData.items[n].type = type }
         IN  IF S = {} THEN <<>>
             ELSE pageData.items[CHOOSE n \in S : \A m \in S : n <= m].books
    ELSE IF pageData.object[type].defined THEN pageData.object[type].books
         ELSE <<>>

(* C18, as stated: on an export of the array shape and on one of the flat  *)
(* shape, with either bucket present or absent, category extraction gives  *)
(* the raw entries of the bucket, or the empty list, and nothing raises:   *)
(* processBooks of the page and loadBooks of the pipeline both complete.   *)
C18_BothShapesTolerated ==
    BucketsHaveBooks =>
        /\ \A type \in {"myfinishedbooks", "mysavedbooks"} :
               /\ findCategory(pageData, type).defined
               /\ findCategory(pageData, type).books = EntriesOf(type)
        /\ step # "raised"
        /\ loaded.run => ~loaded.raised

\* The records of a list that have the year y, in the order of the list.
RECURSIVE RecordsOfYear(_, _)
RecordsOfYear(list, y) ==
    IF list = <<>> THEN <<>>
    ELSE (IF Head(list).year = <<y>> THEN <<Head(list)>> ELSE <<>>)
         \o RecordsOfYear(Tail(list), y)

RECURSIVE TotalBooks(_)
TotalBooks(groups) ==
    IF groups = <<>> THEN 0
    ELSE Len(Head(groups).books) + TotalBooks(Tail(groups))

\* groups is the partition of list by year, in descending order of year.
GroupedByYear(list, groups) ==
    /\ \A n \in 1..(Len(groups) - 1) : groups[n].year > groups[n + 1].year
    /\ { groups[n].year : n \in 1..Len(groups) }
         = { list[m].year[1] : m \in 1..Len(list) }
    /\ \A n \in 1..Len(groups) :
           groups[n].books = RecordsOfYear(list, groups[n].year)
    /\ TotalBooks(groups) = Len(list)

\* The finished records that are kept, in the order of the export.
KeptInInputOrder == SelectSeq(MapFinished(FinishedRaw), Kept)

(* C19: groupByYear returns one group for each year of its list, in        *)
(* strictly descending order of year, each group with the records of its   *)
(* year in the order of the list, so that every record is in exactly one   *)
(* group: for the two lists as rendered, and for the finished records in   *)
(* the order of the export, which need not be descending.                  *)
C19_GroupByYear ==
    /\ step = "rendered" =>
           /\ GroupedByYear(finishedBooks, yearGroups.finished)
           /\ GroupedByYear(savedBooks, yearGroups.saved)
    /\ Processed =>
           GroupedByYear(KeptInInputOrder, groupByYear(KeptInInputOrder))

\* Two finished books of 2022 and 2023, in this order in the export, are
\* rendered as the group of 2023 followed by the group of 2022.
C19_Witness ==
    /\ step = "rendered"
    /\ Len(KeptInInputOrder) = 2
    /\ KeptInInputOrder[1].year = <<2022>>
    /\ KeptInInputOrder[2].year = <<2023>>
    /\ Len(yearGroups.finished) = 2
    /\ yearGroups.finished[1].year = 2023
    /\ yearGroups.finished[2].year = 2022
    /\ Len(yearGroups.finished[1].books) = 1

(* C20, as stated: the ISBNs the pipeline has for a book, which it tries   *)
(* in their order, are the list the page derives for the same raw entry    *)
(* (eBook first, then audioBook, then the others, without duplicates), so  *)
(* that no ISBN is tried twice at one source for the book.                 *)
C20_PipelineUsesNormalizerList ==
    (OneBook /\ loaded.run /\ Len(loaded.books) = 1) =>
        /\ loaded.books[1].isbns = TheIsbns
        /\ \A p, q \in 1..Len(loaded.books[1].isbns) :
               p # q => loaded.books[1].isbns[p] # loaded.books[1].isbns[q]

(***************************************************************************)
(* Properties of the stages of one book, under Spec.                       *)
(***************************************************************************)
\* The entry of the book in hand has just been written, before the delay.
EntryWritten == pc = "delay" /\ book.id \in DOMAIN coversMap

(* C21, as stated: whenever an image is accepted at Open Library for some  *)
(* ISBN and the search response for that ISBN offered an author, the entry *)
(* of the book records that author, whether the image came by the cover    *)
(* identifier or from the direct-by-ISBN endpoint.                         *)
C21_AuthorCapturedWithCover ==
    (/\ EntryWritten
     /\ lastWrite.src \in {"primary", "direct"}
     /\ offered # Null)
        => coversMap[book.id].author = offered

\* The queries of tryGetAuthorOnly in their order: Google Books for every
\* ISBN of the book in list order, then the title search of Open Library.
AuthorOrder(list) ==
    [n \in 1..(Len(list) + 1) |->
        IF n <= Len(list)
        THEN [stage |-> "secondary", idx |-> n, isbn |-> list[n]]
        ELSE [stage |-> "title", idx |-> 0, isbn |-> <<>>]]

AuthorStages == {"authorGb", "authorTitle"}

(* C22: author-only queries are issued for a book if and only if all three *)
(* cover stages ended without an accepted image; they ask Google Books for *)
(* each ISBN in list order and stop at the first ISBN that yields an       *)
(* author, ask the title search only if no ISBN yielded one, and the entry *)
(* written has path null and the author found, or null if none was found.  *)
C22_AuthorOnlyFallback ==
    /\ authorTried # <<>> \/ pc \in AuthorStages =>
           /\ pc \in AuthorStages \cup {"delay"}
           /\ ~accepted
           /\ ~result.found
           /\ tried = CascadeOrder(isbns)
           /\ Len(authorTried) <= Len(isbns) + 1
           /\ \A p \in 1..Len(authorTried) :
                  /\ authorTried[p].stage = AuthorOrder(isbns)[p].stage
                  /\ authorTried[p].idx = AuthorOrder(isbns)[p].idx
                  /\ authorTried[p].isbn = AuthorOrder(isbns)[p].isbn
                  /\ p < Len(authorTried) => authorTried[p].author = Null
    /\ pc \in AuthorStages =>
           \A p \in 1..Len(authorTried) : authorTried[p].author = Null
    /\ EntryWritten =>
           /\ accepted <=> authorTried = <<>>
           /\ ~accepted =>
                  /\ coversMap[book.id].path = NullPath
                  /\ coversMap[book.id].author
                       = authorTried[Len(authorTried)].author
                  /\ \/ coversMap[book.id].author # Null
                     \/ Len(authorTried) = Len(isbns) + 1

\* The cover stages of a book with two ISBNs found nothing; Google Books
\* gave no author for the first ISBN and one for the second, and the entry
\* has this author and no path, the title search not being asked.
C22_Witness ==
    /\ EntryWritten
    /\ Len(isbns) = 2
    /\ Len(authorTried) = 2
    /\ authorTried[1].author = Null
    /\ authorTried[2].stage = "secondary"
    /\ authorTried[2].author = "Herbert"
    /\ coversMap[book.id] = Entry(NullPath, "Herbert")

\* The step takes one of the two skip branches of the loop.
IsSkip == pc = "loop" /\ pc' = "loop" /\ i' = i + 1

(* C23: the delay is not zero; a request for a book that follows a request *)
(* for another book of the run comes after the delay has elapsed at least  *)
(* once; between two requests for one book no delay elapses; a book that   *)
(* takes a skip branch adds no delay.                                      *)
C23_Throttling ==
    /\ [](DELAY_BETWEEN_REQUESTS > 0)
    /\ [](pc \in RequestStages =>
              /\ lastNet \notin {0, i} => waited >= DELAY_BETWEEN_REQUESTS
              /\ lastNet = i => waited = 0)
    /\ [][IsSkip => waited' = waited]_vars

\* The second book of a run is about to issue its first request, the last
\* request was for the first book, and the delay has elapsed since.
C23_Witness ==
    /\ pc \in RequestStages
    /\ i = 2
    /\ lastNet = 1
    /\ waited = DELAY_BETWEEN_REQUESTS

\* The entry of a map is without a cover, or names the image file of its own
\* id and that file is on disk.
ConsistentEntry(map, id) ==
    /\ map[id].path \in {NullPath, <<"covers", id, "jpg">>}
    /\ map[id].path # NullPath => id \in files

(* C25: every entry of the map file and of the map in memory has a path    *)
(* that is null or covers/<id>.jpg of its own id; an entry with a path has *)
(* its image file on disk; an entry with a null path is recorded only when *)
(* no stage accepted an image for the book.                                *)
C25_MapFileConsistency ==
    /\ \A id \in DOMAIN coversFile : ConsistentEntry(coversFile, id)
    /\ \A id \in DOMAIN coversMap : ConsistentEntry(coversMap, id)
    /\ EntryWritten /\ coversMap[book.id].path = NullPath => ~accepted

\* A completed run wrote a map with an entry that has a cover and an entry
\* that has none.
C25_Witness ==
    /\ Completed
    /\ \E a, b \in DOMAIN coversFile :
          /\ coversFile[a].path = <<"covers", a, "jpg">>
          /\ coversFile[b].path = NullPath

\* The map in memory is changed by the assignment of the entry of the book
\* in hand, or dropped with the process at the end of the run.
WrittenByLoop ==
    \/ pc' = "idle"
    \/ coversMap' = Put(coversMap, book.id, coversMap'[book.id])

(* C24: at most one request is in flight at any moment of a run; while a   *)
(* request of a book is in flight the entries of all books before it have  *)
(* been recorded; the map in memory changes only by the loop assigning the *)
(* entry of the book in hand, with no request in flight afterwards; the    *)
(* map file changes only after the last book, with no request in flight.   *)
C24_StrictlySequential ==
    /\ [](outstanding <= 1)
    /\ [](outstanding > 0 =>
              /\ i \in 1..Len(books)
              /\ \A j \in 1..(i - 1) : books[j].id \in DOMAIN coversMap)
    /\ [][coversMap' # coversMap => outstanding' = 0 /\ WrittenByLoop]_vars
    /\ [][coversFile' # coversFile => AtEndOfLoop /\ outstanding = 0]_vars

\* A request of the second book is in flight, and the entry of the first
\* book has been recorded.
C24_Witness ==
    /\ outstanding = 1
    /\ i = 2
    /\ books[1].id \in DOMAIN coversMap
    /\ books[2].id \notin DOMAIN coversMap

(* C26: every run that has started finishes the loop and writes the cover  *)
(* map, whatever the responses are, given that every request is answered.  *)
C26_Termination == (pc # "idle") ~> Completed

====
